---------------------------- MODULE Spec2Model ----------------------------
(***************************************************************************)
(* A model of the EMTT transcript pipeline:                                *)
(*   src/api/utils/transcript.py   extract_video_id, chunk_segments,       *)
(*                                 get_youtube_transcript,                 *)
(*                                 store_transcript_for_rag                *)
(*   src/api/utils/vector_store.py TranscriptVectorStore                   *)
(*                                                                         *)
(* Texts are sequences of one-character strings, so that len(), strip()    *)
(* and concatenation are computed as Python computes them.  A call of      *)
(* chunk_segments is a small state machine: one action per iteration of    *)
(* its for loop, one for its prologue and one for its epilogue.            *)
(***************************************************************************)
EXTENDS Integers, Sequences, FiniteSets, TLC

(* ------------------------------ bounds -------------------------------- *)

MaxSegments == 3
MaxTextLen == 2
MaxChunkSize == 5
MaxOverlapSize == 4
MaxFetched == 2
MaxStart == 2

(* ------------------------- program constants -------------------------- *)

\* chunk_segments(..., max_chunk_size: int = 500, overlap_size: int = 50)
DefaultOverlapSize == 50
\* store_transcript_for_rag(..., chunk_size: int = 500)
DefaultChunkSize == 500
\* ([a-zA-Z0-9_-]{11})
IdLen == 11

(* ------------------------------- texts -------------------------------- *)

None == <<>>

Some(x) == <<x>>

RECURSIVE SeqsUpTo(_, _)
SeqsUpTo(S, n) ==
    IF n = 0 THEN {<<>>}
    ELSE LET shorter == SeqsUpTo(S, n - 1)
         IN  shorter \cup {Append(s, x) : s \in shorter, x \in S}

\* str.strip(): whitespace removed from both ends
RECURSIVE LStrip(_)
LStrip(s) ==
    IF s = <<>> THEN s
    ELSE IF Head(s) = " " THEN LStrip(Tail(s)) ELSE s

RECURSIVE RStrip(_)
RStrip(s) ==
    IF s = <<>> THEN s
    ELSE IF s[Len(s)] = " " THEN RStrip(SubSeq(s, 1, Len(s) - 1)) ELSE s

Strip(s) == RStrip(LStrip(s))

\* " ".join(texts)
RECURSIVE JoinSp(_)
JoinSp(texts) ==
    IF texts = <<>> THEN <<>>
    ELSE IF Len(texts) = 1 THEN texts[1]
    ELSE texts[1] \o <<" ">> \o JoinSp(Tail(texts))

\* p in t  (substring test)
Occurs(p, t) ==
    \E k \in 0..(Len(t) - Len(p)) : SubSeq(t, k + 1, k + Len(p)) = p

RECURSIVE SumSeq(_)
SumSeq(ns) == IF ns = <<>> THEN 0 ELSE Head(ns) + SumSeq(Tail(ns))


RECURSIVE Rep(_, _)
Rep(c, n) == IF n = 0 THEN <<>> ELSE <<c>> \o Rep(c, n - 1)

(* ------------------------------- state -------------------------------- *)

VARIABLES
    mode,                    \* "chunk": chunk_segments is called directly;
                             \* "rag": store_transcript_for_rag is called
    pc,                      \* the position of the call
    segments,                \* chunk_segments: the segments argument
    max_chunk_size,          \* chunk_segments: argument
    overlap_size,            \* chunk_segments: argument
    i,                       \* index of the segment the for loop takes next
    chunks,                  \* chunk_segments: chunks
    current_chunk_text,      \* chunk_segments: current_chunk_text
    current_chunk_start,     \* chunk_segments: current_chunk_start
    current_chunk_segments,  \* chunk_segments: current_chunk_segments, as
                             \* indices into segments
    folded,                  \* history: per closed chunk, the indices of the
                             \* segments folded into it and how many of them
                             \* lead it as the overlap seed
    cur_seed,                \* history: number of seed segments in the buffer
    consumed,                \* history: indices of the segments appended
    video_url,               \* store_transcript_for_rag: video_url
    vector_store,            \* store_transcript_for_rag: TRUE when a store
                             \* instance is passed, FALSE for None
    chunk_size,              \* store_transcript_for_rag: chunk_size
    source,                  \* the transcript the remote API holds
    result,                  \* store_transcript_for_rag: result
    ret,                     \* the value returned to the caller
    fault,                   \* history: the failures that have occurred
    chunk_calls,             \* history: calls of chunk_segments
    store_calls,             \* history: calls of store.store_transcript
    collection               \* TranscriptVectorStore.collection: its items

vars == <<mode, pc, segments, max_chunk_size, overlap_size, i, chunks,
          current_chunk_text, current_chunk_start, current_chunk_segments,
          folded, cur_seed, consumed, video_url, vector_store, chunk_size,
          source, result, ret, fault, chunk_calls, store_calls, collection>>

chunker_vars == <<segments, max_chunk_size, overlap_size, i, chunks,
                  current_chunk_text, current_chunk_start,
                  current_chunk_segments, folded, cur_seed, consumed>>

rag_vars == <<result, fault, store_calls, collection>>

input_vars == <<mode, video_url, vector_store, chunk_size, source>>

(* --------------------------- extract_video_id ------------------------- *)

\* A URL is a sequence of tokens: one of the four markers of the pattern, an
\* identifier character ("c", "d": [a-zA-Z0-9_-]) or any other character ("x").
Markers == {"v=", "/v/", "youtu.be/", "/embed/"}

IdChars == {"c", "d"}

MatchAt(url, p) ==
    /\ p + IdLen <= Len(url)
    /\ url[p] \in Markers
    /\ \A j \in 1..IdLen : url[p + j] \in IdChars

\* re.search: the leftmost match; group(1) is the IdLen characters after the
\* marker.  None when nothing matches.
extract_video_id(url) ==
    LET hits == {p \in 1..Len(url) : MatchAt(url, p)}
    IN  IF hits = {} THEN None
        ELSE LET p == CHOOSE q \in hits : \A r \in hits : q <= r
             IN  Some(SubSeq(url, p + 1, p + IdLen))

(* ---------------------------- chunk_segments -------------------------- *)

\* A close test that leaves the length of the new segment out.
ShouldCloseIgnoringSegment(text, segment_text, max) ==
    /\ Len(text) + 1 > max
    /\ text # <<>>

\* line 42: len(current_chunk_text) + len(segment_text) + 1 > max_chunk_size
\*          and current_chunk_text
ShouldClose(text, segment_text, max) ==
    /\ Len(text) + Len(segment_text) + 1 > max
    /\ text # <<>>

\* An overlap test that leaves the overlap accumulated so far out.
OverlapFitsIgnoringAccumulated(overlap_text, prev_text, overlap) ==
    Len(prev_text) < overlap

\* line 55: len(overlap_text) + len(prev_seg["text"]) < overlap_size
OverlapFits(overlap_text, prev_text, overlap) ==
    Len(overlap_text) + Len(prev_text) < overlap

\* lines 52-59: the walk over reversed(current_chunk_segments), from its k-th
\* element down; stops at the first segment that does not fit.
RECURSIVE OverlapWalk(_, _, _, _, _, _)
OverlapWalk(segs, cur, k, overlap_text, overlap_segments, overlap) ==
    IF k = 0
    THEN [text |-> overlap_text, segments |-> overlap_segments]
    ELSE LET prev_seg == segs[cur[k]]
         IN  IF OverlapFits(overlap_text, prev_seg.text, overlap)
             THEN OverlapWalk(segs, cur, k - 1,
                              prev_seg.text \o <<" ">> \o overlap_text,
                              <<cur[k]>> \o overlap_segments, overlap)
             ELSE [text |-> overlap_text, segments |-> overlap_segments]

\* An end that leaves the last segment's start out.
ChunkEndDurationOnly(last) == last.duration

\* lines 48, 75: current_chunk_segments[-1]["start"] + ...[-1]["duration"]
ChunkEnd(last) == last.start + last.duration

\* lines 44-49 and 71-76: the chunk that closes the buffer
CloseChunk(segs, text, start, cur) ==
    [text     |-> Strip(text),
     start    |-> start,
     duration |-> SumSeq([j \in 1..Len(cur) |-> segs[cur[j]].duration]),
     end      |-> ChunkEnd(segs[cur[Len(cur)]])]

\* A new chunk that always starts at the segment that opened it.
NewChunkStartAtSegment(segs, overlap_segments, segment) == segment.start

\* line 62: overlap_segments[0]["start"] if overlap_segments else segment["start"]
NewChunkStart(segs, overlap_segments, segment) ==
    IF overlap_segments # <<>> THEN segs[overlap_segments[1]].start
    ELSE segment.start

\* A return that forgets the last chunk.
FinalClosesNever(text) == FALSE

\* line 70: if current_chunk_text.strip()
FinalCloses(text) == Strip(text) # <<>>

\* A loop that steps over every other segment.
NextSegmentSkipping(k) == k + 2

\* line 38: the for loop takes the segments one by one
NextSegment(k) == k + 1

\* Where the call of chunk_segments returns to.
AfterChunking == IF mode = "rag" THEN "store" ELSE "done"

\* lines 30-36
ChunkEnter ==
    /\ pc = "enter"
    /\ chunk_calls' = chunk_calls + 1
    /\ IF segments = <<>>
       THEN /\ pc' = AfterChunking
            /\ UNCHANGED <<i, chunks, current_chunk_text, current_chunk_start,
                           current_chunk_segments>>
       ELSE /\ pc' = "loop"
            /\ i' = 1
            /\ chunks' = <<>>
            /\ current_chunk_text' = <<>>
            /\ current_chunk_start' = segments[1].start
            /\ current_chunk_segments' = <<>>
    /\ ret' = IF segments = <<>> /\ mode = "chunk" THEN Some(<<>>) ELSE ret
    /\ UNCHANGED <<segments, max_chunk_size, overlap_size, folded, cur_seed,
                   consumed>>
    /\ UNCHANGED input_vars
    /\ UNCHANGED rag_vars

\* lines 38-67: one iteration of the for loop
LoopStep ==
    /\ pc = "loop"
    /\ i <= Len(segments)
    /\ LET segment == segments[i]
           segment_text == Strip(segment.text)
       IN  IF ShouldClose(current_chunk_text, segment_text, max_chunk_size)
           THEN LET ov == OverlapWalk(segments, current_chunk_segments,
                                      Len(current_chunk_segments), <<>>, <<>>,
                                      overlap_size)
                IN  /\ chunks' = Append(chunks,
                                   CloseChunk(segments, current_chunk_text,
                                              current_chunk_start,
                                              current_chunk_segments))
                    /\ folded' = Append(folded,
                                   [segs |-> current_chunk_segments,
                                    seed |-> cur_seed])
                    /\ current_chunk_text' = ov.text \o <<" ">> \o segment_text
                    /\ current_chunk_start' =
                           NewChunkStart(segments, ov.segments, segment)
                    /\ current_chunk_segments' = Append(ov.segments, i)
                    /\ cur_seed' = Len(ov.segments)
           ELSE /\ current_chunk_text' =
                       current_chunk_text \o <<" ">> \o segment_text
                /\ current_chunk_segments' = Append(current_chunk_segments, i)
                /\ UNCHANGED <<chunks, folded, current_chunk_start, cur_seed>>
    /\ consumed' = Append(consumed, i)
    /\ i' = NextSegment(i)
    /\ UNCHANGED <<pc, segments, max_chunk_size, overlap_size, ret,
                   chunk_calls>>
    /\ UNCHANGED input_vars
    /\ UNCHANGED rag_vars

\* lines 69-78: the last chunk, and the return
ChunkReturn ==
    /\ pc = "loop"
    /\ i > Len(segments)
    /\ IF FinalCloses(current_chunk_text)
       THEN /\ chunks' = Append(chunks,
                           CloseChunk(segments, current_chunk_text,
                                      current_chunk_start,
                                      current_chunk_segments))
            /\ folded' = Append(folded, [segs |-> current_chunk_segments,
                                         seed |-> cur_seed])
       ELSE UNCHANGED <<chunks, folded>>
    /\ pc' = AfterChunking
    /\ ret' = IF mode = "chunk" THEN Some(chunks') ELSE ret
    /\ UNCHANGED <<segments, max_chunk_size, overlap_size, i,
                   current_chunk_text, current_chunk_start,
                   current_chunk_segments, cur_seed, consumed, chunk_calls>>
    /\ UNCHANGED input_vars
    /\ UNCHANGED rag_vars

(* ------------------------ get_youtube_transcript ---------------------- *)

\* What str(e).lower() is searched for.  The message of an exception is
\* modelled by the set of these words it contains.
Keywords == {"disabled", "no transcript", "not found", "unavailable"}

\* What ytt_api.fetch(video_id) does: it returns the transcript, or raises an
\* exception with some message.
ApiOutcomes ==
    {[kind |-> "ok", words |-> {}]}
        \cup {[kind |-> "raise", words |-> w] : w \in SUBSET Keywords}

\* lines 98-103 and 125-151: the failure result
Failure(message, detail) ==
    [success    |-> FALSE,
     transcript |-> None,
     segments   |-> None,
     error      |-> Some([message |-> message, detail |-> detail])]

\* lines 122-151: the classification of the caught exception
Classify(words) ==
    IF "disabled" \in words
    THEN Failure("Transcripts are disabled for this video.", {})
    ELSE IF "no transcript" \in words \/ "not found" \in words
    THEN Failure("No transcript found for this video. It may not have captions available.", {})
    ELSE IF "unavailable" \in words
    THEN Failure("The video is unavailable. It may have been removed or is private.", {})
    ELSE Failure("An unexpected error occurred: ", words)

\* lines 96-151
get_youtube_transcript(url, outcome, held) ==
    IF extract_video_id(url) = None
    THEN Failure("Invalid YouTube URL. Could not extract video ID.", {})
    ELSE IF outcome.kind = "ok"
    THEN [success    |-> TRUE,
          transcript |-> Some(JoinSp([k \in 1..Len(held) |-> held[k].text])),
          segments   |-> Some(held),
          error      |-> None]
    ELSE Classify(outcome.words)

\* The failure a call of get_youtube_transcript meets, if any.
FetchFault(url, outcome) ==
    IF extract_video_id(url) = None THEN {"invalid reference"}
    ELSE IF outcome.kind = "ok" THEN {}
    ELSE {"fetch error"}

(* ------------------ TranscriptVectorStore.store_transcript ------------- *)

\* lines 37-46: the documents and their metadata (the ids, which carry a
\* random suffix, are left out)
Items(video_id, segs, url) ==
    [k \in 1..Len(segs) |->
        [document      |-> segs[k].text,
         video_id      |-> video_id,
         video_url     |-> url,
         start         |-> segs[k].start,
         duration      |-> segs[k].duration,
         segment_index |-> k - 1]]

\* lines 32-56: True when collection.add returns, False when it raises
StoreSucceeds(add_outcome) == add_outcome = "ok"

(* ------------------------ store_transcript_for_rag --------------------- *)

\* A call that goes on after a failed fetch.
ReturnsEarlyNever(res) == FALSE

\* line 168: if not result["success"]
ReturnsEarly(res) == ~res.success

\* lines 166-169: the fetch, and the early return of its failure
Fetch ==
    /\ pc = "fetch"
    /\ \E outcome \in ApiOutcomes :
          LET res == get_youtube_transcript(video_url, outcome, source)
          IN  /\ result' = Some(res)
              /\ fault' = fault \cup FetchFault(video_url, outcome)
              /\ IF ReturnsEarly(res)
                 THEN /\ ret' = Some(res)
                      /\ pc' = "done"
                 ELSE /\ ret' = ret
                      /\ pc' = "construct"
    /\ UNCHANGED chunker_vars
    /\ UNCHANGED input_vars
    /\ UNCHANGED <<chunk_calls, store_calls, collection>>

\* lines 171-175: store = vector_store or TranscriptVectorStore(), then the
\* call chunk_segments(result["segments"], max_chunk_size=chunk_size).  The
\* constructor (vector_store.py lines 10-18) opens the database and loads the
\* embedding model, outside any try: what it raises leaves the function.
Construct ==
    /\ pc = "construct"
    /\ \E ctor \in {"ok", "raise"} :
          IF ~vector_store /\ ctor = "raise"
          THEN /\ pc' = "raised"
               /\ fault' = fault \cup {"storage failure"}
               /\ UNCHANGED <<segments, max_chunk_size, overlap_size>>
          ELSE /\ pc' = "enter"
               /\ fault' = fault
               /\ segments' = IF result[1].segments = None THEN <<>>
                              ELSE result[1].segments[1]
               /\ max_chunk_size' = chunk_size
               /\ overlap_size' = DefaultOverlapSize
    /\ UNCHANGED <<i, chunks, current_chunk_text, current_chunk_start,
                   current_chunk_segments, folded, cur_seed, consumed>>
    /\ UNCHANGED input_vars
    /\ UNCHANGED <<result, ret, chunk_calls, store_calls, collection>>

\* lines 177-189: the call of store.store_transcript and the result
StoreTranscript ==
    /\ pc = "store"
    /\ \E add_outcome \in {"ok", "raise"} :
          LET video_id == extract_video_id(video_url)
              chunked_segments == chunks
              success == StoreSucceeds(add_outcome)
          IN  /\ store_calls' = store_calls + 1
              /\ collection' =
                    IF add_outcome = "ok"
                    THEN collection \o Items(video_id, chunked_segments, video_url)
                    ELSE collection
              /\ fault' = IF success THEN fault
                          ELSE fault \cup {"storage failure"}
              /\ IF result[1].segments = None
                 THEN \* len(None) raises TypeError
                      /\ pc' = "raised"
                      /\ ret' = ret
                 ELSE /\ pc' = "done"
                      /\ ret' = Some(
                            [success           |-> success,
                             video_id          |-> video_id,
                             segments_stored   |-> IF success
                                                   THEN Len(chunked_segments)
                                                   ELSE 0,
                             original_segments |-> Len(result[1].segments[1]),
                             error             |-> IF success THEN None
                                                   ELSE Some([message |-> "Failed to store in vector database",
                                                              detail  |-> {}])])
    /\ UNCHANGED chunker_vars
    /\ UNCHANGED input_vars
    /\ UNCHANGED <<result, chunk_calls>>

(* ------------------------------- inputs ------------------------------- *)

\* The texts of segments: up to MaxTextLen letters, with or without a blank
\* before them (a blank alone included).
Texts == {pad \o Rep("a", n) : pad \in {<<>>, <<" ">>}, n \in 0..MaxTextLen}

\* A transcript as the API delivers it: segment k starts where segment k-1
\* ends and lasts one second.
Contiguous(texts) ==
    [k \in 1..Len(texts) |-> [text |-> texts[k], start |-> k - 1, duration |-> 1]]

Transcripts(n) == {Contiguous(t) : t \in SeqsUpTo(Texts, n)}

Durations == {0, 1}

\* Segments of one letter with any start, in any order, lasting 0 or 1.
TimedSegments == [text : {<<"a">>}, start : 0..MaxStart, duration : Durations]

TimedTranscripts(n) == SeqsUpTo(TimedSegments, n)

Urls ==
    {<<"x", "v=">> \o Rep("c", IdLen),
     <<"youtu.be/">> \o Rep("d", IdLen) \o <<"x">>,
     <<"/embed/">> \o Rep("c", IdLen - 1) \o <<"x", "/v/">> \o Rep("d", IdLen + 1),
     <<"x", "v=">> \o Rep("c", IdLen - 1),
     <<"x", "x", "c">>}

ChunkSizes == (1..MaxChunkSize) \cup {DefaultChunkSize}

\* The state before the call: chunk_segments(segs, max, overlap) when direct
\* is given, store_transcript_for_rag(url, store, size) otherwise.
InitWith(direct, fetched) ==
    /\ mode \in {"chunk", "rag"}
    /\ IF mode = "chunk"
       THEN /\ pc = "enter"
            /\ segments \in direct
            /\ max_chunk_size \in 1..MaxChunkSize
            /\ overlap_size \in 0..MaxOverlapSize
            /\ video_url = <<>>
            /\ vector_store = FALSE
            /\ chunk_size = 0
            /\ source = <<>>
       ELSE /\ pc = "fetch"
            /\ segments = <<>>
            /\ max_chunk_size = 0
            /\ overlap_size = 0
            /\ video_url \in Urls
            /\ vector_store \in BOOLEAN
            /\ chunk_size \in ChunkSizes
            /\ source \in fetched
    /\ i = 0
    /\ chunks = <<>>
    /\ current_chunk_text = <<>>
    /\ current_chunk_start = 0
    /\ current_chunk_segments = <<>>
    /\ folded = <<>>
    /\ cur_seed = 0
    /\ consumed = <<>>
    /\ result = None
    /\ ret = None
    /\ fault = {}
    /\ chunk_calls = 0
    /\ store_calls = 0
    /\ collection = <<>>

Init == InitWith(Transcripts(MaxSegments), Transcripts(MaxFetched))

InitTimed == InitWith(TimedTranscripts(MaxSegments), TimedTranscripts(MaxFetched))

Next ==
    \/ ChunkEnter
    \/ LoopStep
    \/ ChunkReturn
    \/ Fetch
    \/ Construct
    \/ StoreTranscript

Spec == Init /\ [][Next]_vars

\* The same program on segments of arbitrary timing.
SpecTimed == InitTimed /\ [][Next]_vars

\* The calls are blocking and single-threaded: a call that can take a step
\* takes it.
FairSpec == Spec /\ WF_vars(Next)

(* ------------------------------- claims ------------------------------- *)

\* chunk_segments has returned.
Returned == chunk_calls > 0 /\ pc \in {"store", "done", "raised"}

Blank(text) == Strip(text) = <<>>

\* A text str.strip() leaves as it is, and not empty.
Clean(text) == text # <<>> /\ Strip(text) = text

IsSuffix(p, t) ==
    Len(p) <= Len(t) /\ SubSeq(t, Len(t) - Len(p) + 1, Len(t)) = p

\* The segments of closed chunk c that lead it as the overlap seed, and the
\* segments appended to it after the seed.
SeedSegs(c) == SubSeq(folded[c].segs, 1, folded[c].seed)

OwnSegs(c) == SubSeq(folded[c].segs, folded[c].seed + 1, Len(folded[c].segs))

\* The text of chunk c not counting its seed: what its own segments make.
OwnText(c) ==
    Strip(JoinSp([j \in 1..Len(OwnSegs(c)) |-> Strip(segments[OwnSegs(c)[j]].text)]))

\* The text chunk c takes over from the chunk before it.
SharedText(c) ==
    JoinSp([j \in 1..Len(SeedSegs(c)) |-> segments[SeedSegs(c)[j]].text])

\* The segment whose arrival closed chunk c - 1 and opened chunk c.
Trigger(c) == folded[c - 1].segs[Len(folded[c - 1].segs)] + 1

\* C1 (as amended): when chunk_segments has returned and some input segment
\* has a non-empty trimmed text, the result is not empty and the trimmed text
\* of every input segment occurs in the text of some returned chunk.
C1_CoversTrimmedTexts ==
    (Returned /\ \E k \in 1..Len(segments) : ~Blank(segments[k].text)) =>
        /\ chunks # <<>>
        /\ \A k \in 1..Len(segments) :
              \E c \in 1..Len(chunks) :
                 Occurs(Strip(segments[k].text), chunks[c].text)

\* C1 as stated: for every non-empty segment sequence the result is not empty
\* and the text of every input segment occurs in the text of some chunk.
C1_CoversEveryText ==
    (Returned /\ segments # <<>>) =>
        /\ chunks # <<>>
        /\ \A k \in 1..Len(segments) :
              \E c \in 1..Len(chunks) : Occurs(segments[k].text, chunks[c].text)

C1_Witness ==
    /\ Returned
    /\ Len(chunks) >= 2
    /\ \E k \in 1..Len(segments) : Blank(segments[k].text)
    /\ \E k \in 1..Len(segments) :
          ~Blank(segments[k].text) /\ ~Clean(segments[k].text)

\* C2: every chunk's text ends with the text of its own segments (the chunk
\* without its overlap seed), and that text is at most max_chunk_size long
\* unless the chunk's own part is one segment that alone is longer.
C2_SizeBound ==
    \A c \in 1..Len(chunks) :
        /\ IsSuffix(OwnText(c), chunks[c].text)
        /\ \/ Len(OwnText(c)) <= max_chunk_size
           \/ /\ Len(OwnSegs(c)) = 1
              /\ Len(Strip(segments[OwnSegs(c)[1]].text)) > max_chunk_size

C2_Witness ==
    /\ \E c \in 1..Len(chunks) :
          folded[c].seed > 0 /\ Len(OwnText(c)) > max_chunk_size
    /\ \E c \in 1..Len(chunks) : Len(OwnText(c)) = max_chunk_size

\* C3: the seed of every chunk but the first is made of whole trailing segments
\* of the chunk before it, the text it shares with that chunk is at most
\* overlap_size characters long, and with overlap_size = 0 nothing is carried.
C3_OverlapBound ==
    \A c \in 2..Len(folded) :
        LET prev == folded[c - 1].segs
            n == folded[c].seed
        IN  /\ n <= Len(prev)
            /\ SeedSegs(c) = SubSeq(prev, Len(prev) - n + 1, Len(prev))
            /\ Len(SharedText(c)) <= overlap_size
            /\ overlap_size = 0 => n = 0

C3_Witness ==
    /\ overlap_size <= MaxOverlapSize
    /\ \E c \in 2..Len(folded) :
          folded[c].seed = 2 /\ Len(SharedText(c)) = overlap_size - 1

NonDecreasingStarts ==
    \A k \in 1..(Len(segments) - 1) : segments[k].start <= segments[k + 1].start

NonNegativeDurations == \A k \in 1..Len(segments) : segments[k].duration >= 0

\* C4: every chunk's end is start + duration of the last segment folded into
\* it and, when the starts of the input do not decrease and no duration is
\* negative, is not before the chunk's start.
C4_EndNotBeforeStart ==
    \A c \in 1..Len(chunks) :
        LET last == segments[folded[c].segs[Len(folded[c].segs)]]
        IN  /\ chunks[c].end = last.start + last.duration
            /\ (NonDecreasingStarts /\ NonNegativeDurations) =>
                   chunks[c].end >= chunks[c].start

C4_Witness ==
    /\ NonDecreasingStarts
    /\ Len(chunks) >= 2
    /\ folded[2].seed > 0
    /\ chunks[2].end = chunks[2].start
    /\ chunks[1].end > chunks[1].start

\* C5: after a failed fetch store_transcript_for_rag has returned the fetch's
\* failure result itself (success False, with its error) and has called
\* neither chunk_segments nor store_transcript; store_transcript is called
\* only after a successful fetch.
C5_FailurePropagates ==
    /\ (mode = "rag" /\ result # None /\ ~result[1].success) =>
          /\ pc = "done"
          /\ ret = result
          /\ ret[1].error # None
          /\ chunk_calls = 0
          /\ store_calls = 0
    /\ store_calls > 0 => (result # None /\ result[1].success)

C5_Witness ==
    /\ pc = "done"
    /\ fault = {"fetch error"}
    /\ ret[1].error[1].message = "Transcripts are disabled for this video."

\* C6 as stated: whatever failure of the fetch and store steps has occurred,
\* no exception leaves the call, and the call returns a result with success
\* False and an error message.
C6_FailuresAreReturned ==
    fault # {} =>
        /\ pc # "raised"
        /\ pc = "done" => (~ret[1].success /\ ret[1].error # None)

\* C7 as stated (on segments whose texts have no blanks around them): an
\* iteration closes the current chunk only if the buffer is not empty and the
\* accumulated segment texts joined by single spaces, plus a space and the
\* new segment's text, are longer than max_chunk_size.
C7_ClosesOnlyOnOverflow ==
    [][(/\ pc = "loop"
        /\ i <= Len(segments)
        /\ \A k \in 1..Len(segments) : Clean(segments[k].text)
        /\ Len(chunks') > Len(chunks))
       => LET joined == JoinSp([j \in 1..Len(current_chunk_segments) |->
                                   segments[current_chunk_segments[j]].text])
          IN  /\ current_chunk_text # <<>>
              /\ Len(joined) + 1 + Len(segments[i].text) > max_chunk_size]_vars

\* C8 as stated (on chunks whose segments' texts have no blanks around them):
\* the text of a chunk is the texts of the segments folded into it, in input
\* order, each adjacent pair separated by exactly one space.
C8_SingleSpaces ==
    \A c \in 1..Len(chunks) :
        (\A j \in 1..Len(folded[c].segs) : Clean(segments[folded[c].segs[j]].text))
            => chunks[c].text =
                   JoinSp([j \in 1..Len(folded[c].segs) |->
                              segments[folded[c].segs[j]].text])

\* C9: the first chunk starts with the first segment, at its start; a later
\* chunk's own part starts with the segment that triggered the close, and the
\* chunk's start is the start of the earliest segment of its seed, or of the
\* triggering segment when the seed is empty.
C9_ChunkStart ==
    \A c \in 1..Len(chunks) :
        IF c = 1
        THEN /\ folded[1].segs[1] = 1
             /\ chunks[1].start = segments[1].start
        ELSE /\ folded[c].segs[folded[c].seed + 1] = Trigger(c)
             /\ chunks[c].start =
                   IF folded[c].seed > 0
                   THEN segments[SeedSegs(c)[1]].start
                   ELSE segments[Trigger(c)].start

C9_Witness ==
    /\ Len(chunks) >= 2
    /\ folded[2].seed > 0
    /\ chunks[2].start # segments[Trigger(2)].start
    /\ chunks[2].start # chunks[1].start

OneToN(n) == [k \in 1..n |-> k]

\* C10: every call ends; chunk_segments appends the segments one by one in
\* input order, each exactly once, closes at most one chunk per step and never
\* holds more chunks than segments consumed, so that it returns at most as
\* many chunks as there are input segments (also with
\* overlap_size >= max_chunk_size).
C10_Terminates ==
    /\ <>(pc \in {"done", "raised"})
    /\ [](Len(chunks) <= Len(consumed))
    /\ [](Returned => (consumed = OneToN(Len(segments))
                       /\ Len(chunks) <= Len(segments)))
    /\ [][/\ Len(chunks') <= Len(chunks) + 1
          /\ consumed' \in {consumed, Append(consumed, Len(consumed) + 1)}]_vars

C10_Witness ==
    /\ mode = "chunk"
    /\ pc = "done"
    /\ overlap_size >= max_chunk_size
    /\ Len(chunks) = MaxSegments
    /\ \E c \in 1..Len(chunks) : folded[c].seed >= 2

=============================================================================
